---- MODULE Spec2Model ----
(***************************************************************************)
(* hq-go-logger: the Logger's filtering / dispatch path (logger.go), the   *)
(* event construction by options, and the console formatter it calls.      *)
(*                                                                         *)
(* Text is modelled as a sequence of one-character strings, so that        *)
(* trimming, bracketing and concatenation are computed, not assumed.       *)
(***************************************************************************)
EXTENDS Integers, Sequences, FiniteSets, TLC

(***************************************************************************)
(* levels/levels.go                                                        *)
(***************************************************************************)
LevelFatal  == 0
LevelSilent == 1
LevelError  == 2
LevelInfo   == 3
LevelWarn   == 4
LevelDebug  == 5

\* a table in which two levels have the same name
s_WarnTwice == << <<"f","a","t","a","l">>, <<"s","i","l","e","n","t">>,
                  <<"e","r","r","o","r">>, <<"w","a","r","n">>,
                  <<"w","a","r","n">>, <<"d","e","b","u","g">> >>

\* var s = [...]string{"fatal", "silent", "error", "info", "warn", "debug"}
s == << <<"f","a","t","a","l">>, <<"s","i","l","e","n","t">>,
        <<"e","r","r","o","r">>, <<"i","n","f","o">>,
        <<"w","a","r","n">>, <<"d","e","b","u","g">> >>

\* Level.IsValid: l.Int() >= 0 && l.Int() < len(s)
IsValid(l) == l >= 0 /\ l < Len(s)

(***************************************************************************)
(* Bounds of the model                                                     *)
(***************************************************************************)
\* number of caller options passed to one entry point call
MaxOpts == 1

\* the goroutines that log; the setters run concurrently with them
Goroutines == {"g1"}

\* Level is an int: values outside the declared range can be passed around
BelowRange == LevelFatal - 1
EntryLevels == LevelFatal..LevelDebug
\* thresholds passed to SetLevel
SetLevels == {BelowRange, LevelInfo, LevelDebug}

(***************************************************************************)
(* Text helpers                                                            *)
(***************************************************************************)
NL == "\n"

\* strings.TrimSuffix(m, "\n"): removes one trailing line break, if present
TrimSuffixNL(m) ==
    IF Len(m) > 0 /\ m[Len(m)] = NL THEN SubSeq(m, 1, Len(m) - 1) ELSE m

Messages == { <<"m">>, <<"m", NL>> }

(***************************************************************************)
(* Metadata values (map[string]any): a dynamic type and its %v text        *)
(***************************************************************************)
StringValue(v) == [t |-> "string", v |-> v]
ErrorValue(v)  == [t |-> "error", v |-> v]

EmptyMetadata == [k \in {} |-> StringValue(<<>>)]

\* e.metadata[key] = value
MapSet(m, key, value) ==
    [k \in (DOMAIN m) \cup {key} |-> IF k = key THEN value ELSE m[k]]

\* delete(metadata, key)
MapDelete(m, key) == [k \in (DOMAIN m) \ {key} |-> m[k]]

(***************************************************************************)
(* _Event and the options pattern (logger.go)                              *)
(***************************************************************************)
\* time.Time values: the zero time, the time of the event's creation and the
\* time at which the formatter runs
ZeroTime   == "zero"
CreateTime == "t0"
FormatTime == "t1"

\* _Event.SetTimestamp
SetTimestamp(e, t) == [e EXCEPT !.timestamp = t]
\* _Event.SetLevel
EventSetLevel(e, l) == [e EXCEPT !.level = l]
\* _Event.SetMessage
SetMessage(e, m) == [e EXCEPT !.message = m]
\* _Event.SetValue (the map is always allocated by _NewEvent)
SetValue(e, key, value) == [e EXCEPT !.metadata = MapSet(e.metadata, key, value)]
\* _Event.SetString
SetString(e, key, value) == SetValue(e, key, StringValue(value))
\* _Event.SetLabel
SetLabel(e, label) == SetString(e, "label", label)
\* _Event.SetError
SetError(e, err) == SetValue(e, "error", ErrorValue(err))

\* OptionFunc values, as data: the constructor and its captured arguments
_WithLevel(l)        == [op |-> "_WithLevel", level |-> l]
_WithMessage(m)      == [op |-> "_WithMessage", message |-> m]
WithoutTimestamp     == [op |-> "WithoutTimestamp"]
WithString(k, v)     == [op |-> "WithString", key |-> k, value |-> v]
WithLabel(label)     == [op |-> "WithLabel", label |-> label]
WithoutLabel         == [op |-> "WithoutLabel"]
WithError(err)       == [op |-> "WithError", err |-> err]

\* f(event): running one OptionFunc on the event
ApplyOption(e, o) ==
    CASE o.op = "_WithLevel"       -> EventSetLevel(e, o.level)
      [] o.op = "_WithMessage"     -> SetMessage(e, o.message)
      [] o.op = "WithoutTimestamp" -> SetTimestamp(e, ZeroTime)
      [] o.op = "WithString"       -> SetString(e, o.key, o.value)
      [] o.op = "WithLabel"        -> SetLabel(e, o.label)
      [] o.op = "WithoutLabel"     -> SetLabel(e, <<>>)
      [] o.op = "WithError"        -> SetError(e, o.err)

RECURSIVE ApplyOptions(_, _)
ApplyOptions(e, ofs) ==
    IF ofs = <<>> THEN e
    ELSE ApplyOptions(ApplyOption(e, Head(ofs)), Tail(ofs))

\* _NewEvent: timestamp time.Now(), level and message zero values, empty map,
\* then every option in order
_NewEvent(ofs) ==
    ApplyOptions([timestamp |-> CreateTime, level |-> LevelFatal,
                  message |-> <<>>, metadata |-> EmptyMetadata], ofs)

\* options a caller passes in this model
CallerOptions ==
    { WithLabel(<<"L">>), WithoutLabel }

RECURSIVE SeqsUpTo(_, _)
SeqsUpTo(S, n) ==
    IF n = 0 THEN { <<>> }
    ELSE LET shorter == SeqsUpTo(S, n - 1)
         IN  shorter \cup { Append(q, x) : q \in shorter, x \in S }

OptionLists == SeqsUpTo(CallerOptions, MaxOpts)

(***************************************************************************)
(* formatter: Colorizer, Console.Format (logger.go 500-594)                *)
(***************************************************************************)
\* NoOpColorizer.Colorize
NoOpColorize(text, level) == text

\* an ANSI SGR escape sequence with the given codes, as the libraries emit it
ESC == "ESC["
RECURSIVE JoinCodes(_)
JoinCodes(codes) ==
    IF Len(codes) <= 1 THEN codes
    ELSE << Head(codes), ";" >> \o JoinCodes(Tail(codes))
SGR(codes) == << ESC >> \o JoinCodes(codes) \o << "m" >>

\* SGR codes: bold and the bright foreground colours, and the resets
Bold          == "1"
BrightRed     == "91"
BrightYellow  == "93"
BrightBlue    == "94"
BrightMagenta == "95"
Reset         == "0"
ResetBold     == "22"

\* aurora: c.au.<Colour>(text).Bold().String(), colours enabled (aurora.go 71)
AuroraStyled(colour, text) == SGR(<< Bold, colour >>) \o text \o SGR(<< Reset >>)

\* fatih/color: color.New(colour, color.Bold).Sprint(text) (fatih.go 87-91),
\* with colour output enabled
FatihStyled(colour, text) ==
    SGR(<< colour, Bold >>) \o text \o SGR(<< Reset, ResetBold >>)

\* an Aurora table in which Warn has the colour of Info
AuroraColorize_WarnBlue(text, level) ==
    CASE level = LevelFatal -> AuroraStyled(BrightRed, text)
      [] level = LevelError -> AuroraStyled(BrightRed, text)
      [] level = LevelInfo  -> AuroraStyled(BrightBlue, text)
      [] level = LevelWarn  -> AuroraStyled(BrightBlue, text)
      [] level = LevelDebug -> AuroraStyled(BrightMagenta, text)
      [] OTHER -> text

\* AuroraColorizer.Colorize (aurora.go 39-56)
AuroraColorize(text, level) ==
    CASE level = LevelFatal -> AuroraStyled(BrightRed, text)
      [] level = LevelError -> AuroraStyled(BrightRed, text)
      [] level = LevelInfo  -> AuroraStyled(BrightBlue, text)
      [] level = LevelWarn  -> AuroraStyled(BrightYellow, text)
      [] level = LevelDebug -> AuroraStyled(BrightMagenta, text)
      [] OTHER -> text

\* FatihColorizer.Colorize (fatih.go 53-70)
FatihColorize(text, level) ==
    CASE level = LevelFatal -> FatihStyled(BrightRed, text)
      [] level = LevelError -> FatihStyled(BrightRed, text)
      [] level = LevelInfo  -> FatihStyled(BrightBlue, text)
      [] level = LevelWarn  -> FatihStyled(BrightYellow, text)
      [] level = LevelDebug -> FatihStyled(BrightMagenta, text)
      [] OTHER -> text

\* c.cfg.Colorizer.Colorize(str, log.Level)
Colorize(colorizer, text, level) ==
    CASE colorizer = "noop"   -> NoOpColorize(text, level)
      [] colorizer = "aurora" -> AuroraColorize(text, level)
      [] colorizer = "fatih"  -> FatihColorize(text, level)

\* timestamp.Format(c.cfg.TimestampFormat)
TimestampText(t) == << "<", t, ">" >>

KeyOrders(S) ==
    { f \in [1..Cardinality(S) -> S] : \A i, j \in DOMAIN f : i # j => f[i] # f[j] }

\* for k, v := range metadata { ... }: the key=value loop, in iteration order
RECURSIVE KeyValueLoop(_, _)
KeyValueLoop(metadata, order) ==
    IF order = <<>> THEN <<>>
    ELSE LET k == Head(order)
             v == metadata[k]
         IN  (IF k = "" \/ v.t = "nil" THEN <<>>
              ELSE <<" ", k, "=">> \o v.v)
             \o KeyValueLoop(metadata, Tail(order))

\* a label block that colorizes whatever cfg.Colorize says
LabelBlock_AlwaysColorize(cfg, level, metadata) ==
    IF "label" \in DOMAIN metadata /\ metadata["label"] # StringValue(<<>>)
    THEN LET label == metadata["label"]
         IN  [text |-> IF label.t = "string" /\ label.v # <<>> /\ cfg.IncludeLabel
                       THEN <<"[">> \o Colorize(cfg.Colorizer, label.v, level)
                            \o <<"]", " ">>
                       ELSE <<>>,
              metadata |-> MapDelete(metadata, "label")]
    ELSE [text |-> <<>>, metadata |-> metadata]

\* the label block of Console.Format (538-553): the text written and the
\* working copy of the metadata afterwards
LabelBlock(cfg, level, metadata) ==
    IF "label" \in DOMAIN metadata /\ metadata["label"] # StringValue(<<>>)
    THEN LET label == metadata["label"]
         IN  [text |-> IF label.t = "string" /\ label.v # <<>> /\ cfg.IncludeLabel
                       THEN <<"[">>
                            \o (IF cfg.Colorize
                                THEN Colorize(cfg.Colorizer, label.v, level)
                                ELSE label.v)
                            \o <<"]", " ">>
                       ELSE <<>>,
              metadata |-> MapDelete(metadata, "label")]
    ELSE [text |-> <<>>, metadata |-> metadata]

\* an error block set off by a single line break
ErrorBlock_OneBreak(metadata) ==
    IF "error" \in DOMAIN metadata /\ metadata["error"].t # "nil"
    THEN <<NL>> \o metadata["error"].v
    ELSE <<>>

\* the error block of Console.Format (571-589)
ErrorBlock(metadata) ==
    IF "error" \in DOMAIN metadata /\ metadata["error"].t # "nil"
    THEN <<NL, NL>> \o metadata["error"].v
    ELSE <<>>

\* Console.Format; order is the iteration order of the range loop over the
\* working copy of the metadata
ConsoleFormat(cfg, log, order) ==
    IF ~IsValid(log.Level)
    THEN [err |-> TRUE, data |-> <<>>]
    ELSE LET lb == LabelBlock(cfg, log.Level, log.Metadata)
             ts == IF cfg.IncludeTimestamp
                   THEN TimestampText(IF log.Timestamp = ZeroTime
                                      THEN FormatTime ELSE log.Timestamp)
                        \o <<" ">>
                   ELSE <<>>
         IN  [err  |-> FALSE,
              data |-> ts \o lb.text \o TrimSuffixNL(log.Message)
                       \o KeyValueLoop(lb.metadata, order)
                       \o ErrorBlock(lb.metadata)]

\* the possible results of Console.Format, over the map iteration orders
ConsoleFormatResults(cfg, log) ==
    { ConsoleFormat(cfg, log, order) :
        order \in KeyOrders(DOMAIN LabelBlock(cfg, log.Level, log.Metadata).metadata) }

\* DefaultConsoleConfig
DefaultConsoleConfig ==
    [IncludeTimestamp |-> TRUE, IncludeLabel |-> TRUE,
     Colorize |-> TRUE, Colorizer |-> "noop"]

\* a configuration with labels rendered, no timestamp and no colours
PlainConsoleConfig ==
    [IncludeTimestamp |-> FALSE, IncludeLabel |-> TRUE,
     Colorize |-> FALSE, Colorizer |-> "noop"]

\* NewConsoleFormatter
NewConsoleFormatter(cfg) == [kind |-> "console", cfg |-> cfg]

\* a Formatter written by the caller: it may fail on any event
CustomFormatter == [kind |-> "custom"]
\* the unset (nil) Formatter and Writer
NilFormatter == [kind |-> "nil"]
NilWriter == "nil"

Formatters == { NewConsoleFormatter(PlainConsoleConfig), CustomFormatter }
Writers == { "wA" }

\* l.formatter.Format(&Log{...}) on a non-nil formatter: the possible results
FormatResults(f, log) ==
    IF f.kind = "console" THEN ConsoleFormatResults(f.cfg, log)
    ELSE { [err |-> TRUE, data |-> <<>>], [err |-> FALSE, data |-> <<"c">>] }

(***************************************************************************)
(* Logger (logger.go 128-313, 450-456)                                     *)
(***************************************************************************)
VARIABLES
    level,      \* Logger.level: the threshold
    formatter,  \* Logger.formatter
    writer,     \* Logger.writer
    rlock,      \* goroutines holding Logger.mutex for reading
    pc,         \* where each goroutine is in its entry point / Log call
    dispatched, \* the event as _NewEvent returned it to Log
    event,      \* the event as Log has changed it so far
    chk,        \* the configuration Log read under the lock (line 274)
    formatted,  \* Format invocations of the call: formatter, log, result
    written,    \* Write invocations of the call: writer, data, level, result
    exited,     \* "running", "exit1" (os.Exit(1)) or "panic" (runtime fault)
    probe,      \* one (level, formatter, writer), fixed from the start
    probeHeld,  \* whether the logger has held the probe at some instant
    call,       \* a function of the library applied on its own: its arguments
    ret,        \* what that application returned, once it has returned
    mutex,      \* writer.Console.mutex: "free" or the goroutine holding it
    stdout,     \* what has been written to the console writer's stdout
    stderr,     \* what has been written to the console writer's stderr
    wpc,        \* where each goroutine is in its Console.Write call
    backing,    \* the arrays behind the option slices of entry point calls
    epc,        \* where each goroutine is in its entry point
    built       \* the event each entry point has built so far

vars == << level, formatter, writer, rlock, pc, dispatched, event, chk,
           formatted, written, exited, probe, probeHeld, call, ret,
           mutex, stdout, stderr, wpc, backing, epc, built >>

Config(l, f, w) == [level |-> l, formatter |-> f, writer |-> w]

\* NewLogger: only the mutex is set; level is the zero Level, formatter and
\* writer are nil
NewLogger == Config(LevelFatal, NilFormatter, NilWriter)

\* the configurations the setters can produce from NewLogger
Configs ==
    { Config(l, f, w) : l \in SetLevels \cup {LevelFatal},
                        f \in Formatters \cup {NilFormatter},
                        w \in Writers \cup {NilWriter} }

\* the configurations whose presence in the logger's history is recorded
ProbeConfigs == { Config(LevelFatal, CustomFormatter, "wA") }

NoEvent == _NewEvent(<<>>)

\* no function is applied on its own while the Logger runs
NoCall == [op |-> "none"]

\* goroutines that call Write on one console writer
WriterGoroutines == { "w1", "w2" }

\* NewConsoleWriter: a fresh mutex; nothing written yet, no Write in progress
ConsoleWriterInit ==
    /\ mutex = "free"
    /\ stdout = <<>>
    /\ stderr = <<>>
    /\ wpc = [g \in WriterGoroutines |-> "idle"]

consoleWriterVars == << mutex, stdout, stderr, wpc >>

\* goroutines that call entry points with one options slice
SliceGoroutines == { "e1", "e2" }
\* the event a goroutine has before _NewEvent has run
NotBuilt == [ op |-> "none" ]

\* no entry point is running on a shared options slice
SliceInit ==
    /\ backing = <<>>
    /\ epc = [g \in SliceGoroutines |-> "idle"]
    /\ built = [g \in SliceGoroutines |-> NotBuilt]

sliceVars == << backing, epc, built >>

\* the Logger as NewLogger returns it, with no call in progress
LoggerInit ==
    /\ level = NewLogger.level
    /\ formatter = NewLogger.formatter
    /\ writer = NewLogger.writer
    /\ rlock = {}
    /\ pc = [g \in Goroutines |-> "idle"]
    /\ dispatched = [g \in Goroutines |-> NoEvent]
    /\ event = [g \in Goroutines |-> NoEvent]
    /\ chk = [g \in Goroutines |-> <<>>]
    /\ formatted = [g \in Goroutines |-> <<>>]
    /\ written = [g \in Goroutines |-> <<>>]
    /\ exited = "running"
    /\ probe \in ProbeConfigs
    /\ probeHeld = (probe = NewLogger)
    /\ ConsoleWriterInit
    /\ SliceInit

Init ==
    /\ LoggerInit
    /\ call = NoCall
    /\ ret = <<>>

callVars == << pc, dispatched, event, chk, formatted, written >>
loggerVars == << level, formatter, writer, probe, probeHeld, call, ret,
                 consoleWriterVars, sliceVars >>

\* a setter: Lock (waits for the readers), the assignment, Unlock
Setter(l, f, w) ==
    /\ level' = l
    /\ formatter' = f
    /\ writer' = w
    /\ probeHeld' = (probeHeld \/ probe = Config(l, f, w))
    /\ UNCHANGED probe
    /\ UNCHANGED << rlock, callVars, exited, call, ret, consoleWriterVars,
                    sliceVars >>

\* Logger.SetLevel
SetLevel ==
    /\ exited = "running"
    /\ rlock = {}
    /\ \E l \in SetLevels : Setter(l, formatter, writer)

\* Logger.SetFormatter
SetFormatter ==
    /\ exited = "running"
    /\ rlock = {}
    /\ \E f \in Formatters \cup {NilFormatter} : Setter(level, f, writer)

\* Logger.SetWriter
SetWriter ==
    /\ exited = "running"
    /\ rlock = {}
    /\ \E w \in Writers \cup {NilWriter} : Setter(level, formatter, w)

\* the start of a call: the event is built and handed to Log
Dispatch(g, e) ==
    /\ pc' = [pc EXCEPT ![g] = "rlock"]
    /\ dispatched' = [dispatched EXCEPT ![g] = e]
    /\ event' = [event EXCEPT ![g] = e]
    /\ chk' = [chk EXCEPT ![g] = <<>>]
    /\ formatted' = [formatted EXCEPT ![g] = <<>>]
    /\ written' = [written EXCEPT ![g] = <<>>]
    /\ UNCHANGED << loggerVars, rlock, exited >>

\* Logger.Fatal / Print / Error / Info / Warn / Debug:
\*   ofs = append(ofs, _WithLevel(L), _WithMessage(message)); l.Log(_NewEvent(ofs...))
EntryPoint(g) ==
    /\ exited = "running"
    /\ pc[g] \in {"idle", "returned"}
    /\ \E l \in EntryLevels, m \in Messages, ofs \in OptionLists :
        Dispatch(g, _NewEvent(ofs \o << _WithLevel(l), _WithMessage(m) >>))

\* Logger.Log called with an event whose level is outside the declared range
\* (Level is an int, and _Event.SetLevel takes any Level)
LogOutOfRange(g) ==
    /\ exited = "running"
    /\ pc[g] \in {"idle", "returned"}
    /\ \E m \in Messages, ofs \in OptionLists :
        Dispatch(g, _NewEvent(ofs \o << _WithLevel(BelowRange), _WithMessage(m) >>))

\* line 272: l.mutex.RLock()
LogRLock(g) ==
    /\ exited = "running"
    /\ pc[g] = "rlock"
    /\ rlock' = rlock \cup {g}
    /\ pc' = [pc EXCEPT ![g] = "check"]
    /\ UNCHANGED << loggerVars, dispatched, event, chk, formatted, written, exited >>

\* the check without the threshold comparison
Dropped_NoThreshold(e, l, f, w) == f = NilFormatter \/ w = NilWriter

\* the check without the test for an unset writer
Dropped_NoWriterTest(e, l, f, w) == f = NilFormatter \/ e.level > l

\* line 274: l.formatter == nil || l.writer == nil || event.level > l.level
Dropped(e, l, f, w) == f = NilFormatter \/ w = NilWriter \/ e.level > l

\* a Log that keeps the read lock after the check
RUnlock_Keep(readers, g) == readers

\* lines 275 and 280: l.mutex.RUnlock()
RUnlock(readers, g) == readers \ {g}

\* lines 274-280: the check under the read lock, RUnlock on both branches
LogCheck(g) ==
    /\ exited = "running"
    /\ pc[g] = "check"
    /\ chk' = [chk EXCEPT ![g] = << Config(level, formatter, writer) >>]
    /\ rlock' = RUnlock(rlock, g)
    /\ pc' = [pc EXCEPT ![g] =
                IF Dropped(event[g], level, formatter, writer)
                THEN "returned" ELSE "prepare"]
    /\ UNCHANGED << loggerVars, dispatched, event, formatted, written, exited >>

\* a labels map with the codes of Info and Warn exchanged
labels_Swapped ==
    [l \in {LevelFatal, LevelError, LevelInfo, LevelWarn, LevelDebug} |->
        CASE l = LevelFatal -> <<"F","T","L">>
          [] l = LevelError -> <<"E","R","R">>
          [] l = LevelInfo  -> <<"W","R","N">>
          [] l = LevelWarn  -> <<"I","N","F">>
          [] l = LevelDebug -> <<"D","B","G">>]

\* lines 283-289: the labels map
labels ==
    [l \in {LevelFatal, LevelError, LevelInfo, LevelWarn, LevelDebug} |->
        CASE l = LevelFatal -> <<"F","T","L">>
          [] l = LevelError -> <<"E","R","R">>
          [] l = LevelInfo  -> <<"I","N","F">>
          [] l = LevelWarn  -> <<"W","R","N">>
          [] l = LevelDebug -> <<"D","B","G">>]

\* a default-label step that does not test for an existing label
DefaultLabel_Overwrite(e) ==
    IF e.level \in DOMAIN labels
    THEN [e EXCEPT !.metadata = MapSet(e.metadata, "label", StringValue(labels[e.level]))]
    ELSE e

\* lines 282-294: the default label
DefaultLabel(e) ==
    IF "label" \notin DOMAIN e.metadata /\ e.level \in DOMAIN labels
    THEN [e EXCEPT !.metadata = MapSet(e.metadata, "label", StringValue(labels[e.level]))]
    ELSE e

\* line 296: event.message = strings.TrimSuffix(event.message, "\n")
Normalize(e) == [e EXCEPT !.message = TrimSuffixNL(e.message)]

\* lines 282-296
LogPrepare(g) ==
    /\ exited = "running"
    /\ pc[g] = "prepare"
    /\ event' = [event EXCEPT ![g] = Normalize(DefaultLabel(event[g]))]
    /\ pc' = [pc EXCEPT ![g] = "format"]
    /\ UNCHANGED << loggerVars, rlock, dispatched, chk, formatted, written, exited >>

\* lines 298-303: the record handed to the formatter
FormatterLog(e) ==
    [Timestamp |-> e.timestamp, Message |-> e.message,
     Level |-> e.level, Metadata |-> e.metadata]

\* a Log that goes on to the writer whatever Format returned
AfterFormat_IgnoreErr(r) == "write"

\* lines 304-306: if err != nil { return }
AfterFormat(r) == IF r.err THEN "returned" ELSE "write"

\* lines 298-306: l.formatter is read again, without the lock; a method call
\* on a nil interface is a runtime fault; an error from Format returns.
\* The read races with SetFormatter: it yields the value before or after a
\* concurrent assignment, which the interleaving of this step with the setter
\* steps produces (a torn interface value between nil and non-nil faults like
\* the nil value does).
LogFormat(g) ==
    /\ exited = "running"
    /\ pc[g] = "format"
    /\ IF formatter = NilFormatter
       THEN /\ exited' = "panic"
            /\ pc' = [pc EXCEPT ![g] = "panicked"]
            /\ UNCHANGED formatted
       ELSE \E r \in FormatResults(formatter, FormatterLog(event[g])) :
            /\ formatted' = [formatted EXCEPT ![g] =
                   Append(@, [formatter |-> formatter,
                              log |-> FormatterLog(event[g]), result |-> r])]
            /\ pc' = [pc EXCEPT ![g] = AfterFormat(r)]
            /\ UNCHANGED exited
    /\ UNCHANGED << loggerVars, rlock, dispatched, event, chk, written >>

\* line 308: l.writer is read without the lock (racing with SetWriter, as
\* above) and Write is entered
LogWrite(g) ==
    /\ exited = "running"
    /\ pc[g] = "write"
    /\ IF writer = NilWriter
       THEN /\ exited' = "panic"
            /\ pc' = [pc EXCEPT ![g] = "panicked"]
            /\ UNCHANGED written
       ELSE /\ written' = [written EXCEPT ![g] =
                   Append(@, [writer |-> writer,
                              data |-> formatted[g][Len(formatted[g])].result.data,
                              level |-> event[g].level, result |-> "running"])]
            /\ pc' = [pc EXCEPT ![g] = "inwrite"]
            /\ UNCHANGED exited
    /\ UNCHANGED << loggerVars, rlock, dispatched, event, chk, formatted >>

\* line 308: Write returns, with or without an error, which Log discards
LogWriteReturn(g) ==
    /\ exited = "running"
    /\ pc[g] = "inwrite"
    /\ \E r \in {"ok", "error"} :
          written' = [written EXCEPT ![g][Len(written[g])].result = r]
    /\ pc' = [pc EXCEPT ![g] = "fatal"]
    /\ UNCHANGED << loggerVars, rlock, dispatched, event, chk, formatted, exited >>

\* an exit test that compares with the wrong level constant
IsFatalEvent_Error(e) == e.level = LevelError

\* line 310: event.level == hqgologgerlevels.LevelFatal
IsFatalEvent(e) == e.level = LevelFatal

\* lines 310-313: os.Exit(1) for a Fatal event, else return
LogFinish(g) ==
    /\ exited = "running"
    /\ pc[g] = "fatal"
    /\ IF IsFatalEvent(event[g])
       THEN /\ exited' = "exit1"
            /\ pc' = [pc EXCEPT ![g] = "exited"]
       ELSE /\ pc' = [pc EXCEPT ![g] = "returned"]
            /\ UNCHANGED exited
    /\ UNCHANGED << loggerVars, rlock, dispatched, event, chk, formatted, written >>

Next ==
    \/ SetLevel
    \/ SetFormatter
    \/ SetWriter
    \/ \E g \in Goroutines : EntryPoint(g)
    \/ \E g \in Goroutines : LogOutOfRange(g)
    \/ \E g \in Goroutines : LogRLock(g)
    \/ \E g \in Goroutines : LogCheck(g)
    \/ \E g \in Goroutines : LogPrepare(g)
    \/ \E g \in Goroutines : LogFormat(g)
    \/ \E g \in Goroutines : LogWrite(g)
    \/ \E g \in Goroutines : LogWriteReturn(g)
    \/ \E g \in Goroutines : LogFinish(g)

Spec == Init /\ [][Next]_vars

(***************************************************************************)
(* Properties of the Logger's dispatch path                                *)
(***************************************************************************)
\* the configuration the call read under the lock
Checked(g) == chk[g] # <<>>
ChkCfg(g) == chk[g][1]
\* the call has ended: it returned, it ended the process, or it faulted
Ended(g) == pc[g] \in {"returned", "exited", "panicked"}
\* the call's Format invocation succeeded
FormattedOk(g) == formatted[g] # <<>> /\ ~formatted[g][Len(formatted[g])].result.err
\* the call passed line 274
Passed(g) ==
    Checked(g) /\ ~Dropped(dispatched[g], ChkCfg(g).level, ChkCfg(g).formatter,
                           ChkCfg(g).writer)

\* C1: an event whose level is greater (less severe) than the threshold the
\* call read reaches neither the formatter nor the writer: the call returns
\* with no Format and no Write invocation.
C1_BelowThresholdDropped ==
    \A g \in Goroutines :
        (Checked(g) /\ dispatched[g].level > ChkCfg(g).level)
            => /\ pc[g] = "returned"
               /\ formatted[g] = <<>>
               /\ written[g] = <<>>

\* a call on a fully configured logger that only the threshold filtered out
C1_Witness ==
    \E g \in Goroutines :
        /\ Checked(g)
        /\ ChkCfg(g).formatter # NilFormatter
        /\ ChkCfg(g).writer # NilWriter
        /\ ChkCfg(g).level = LevelInfo
        /\ dispatched[g].level = LevelDebug
        /\ pc[g] = "returned"

\* C2 as stated: no Fatal-level call returns to its caller (every dispatch of
\* a Fatal event terminates the process, whatever the configuration and
\* whatever the formatter or the writer did).
C2_FatalAlwaysTerminates ==
    \A g \in Goroutines :
        ~(dispatched[g].level = LevelFatal /\ Checked(g) /\ pc[g] = "returned")

\* C2 amended: a Fatal-level event whose Write call was made and has returned
\* (with or without an error) never returns to the caller, and a process exit
\* with status 1 comes only from such a call; a Fatal event that returns to
\* the caller was dropped at line 274 or failed to format, and wrote nothing.
C2_FatalExitsAfterWrite ==
    \A g \in Goroutines :
        dispatched[g].level = LevelFatal =>
            /\ (written[g] # <<>> /\ written[g][1].result # "running")
                   => pc[g] \in {"fatal", "exited"}
            /\ pc[g] = "exited"
                   => /\ exited = "exit1"
                      /\ Len(written[g]) = 1
                      /\ written[g][1].result \in {"ok", "error"}
            /\ (Checked(g) /\ pc[g] = "returned")
                   => /\ written[g] = <<>>
                      /\ ~Passed(g) \/ (formatted[g] # <<>> /\ ~FormattedOk(g))

\* a Fatal call that ended the process after a Write that returned an error
C2_Witness ==
    \E g \in Goroutines :
        /\ dispatched[g].level = LevelFatal
        /\ pc[g] = "exited"
        /\ exited = "exit1"
        /\ written[g][1].result = "error"

\* C3: for a Fatal-level event that passed the filter and was formatted, the
\* call never returns and never faults, and when the call has ended the writer
\* has received exactly the formatted bytes and the process exit is status 1.
C3_FatalWriteThenExit ==
    \A g \in Goroutines :
        (dispatched[g].level = LevelFatal /\ Passed(g) /\ FormattedOk(g)) =>
            /\ pc[g] \notin {"returned", "panicked"}
            /\ exited # "panic"
            /\ pc[g] = "exited"
                   => /\ exited = "exit1"
                      /\ Len(written[g]) = 1
                      /\ written[g][1].data = formatted[g][1].result.data

\* C4: the threshold a call filtered with, the formatter it formatted with and
\* the writer it wrote to were, together, the logger's configuration at some
\* instant (stated for the configurations whose history is recorded).
C4_ConsistentTriple ==
    \A g \in Goroutines :
        (written[g] # <<>> /\ formatted[g] # <<>> /\ Checked(g)
         /\ probe = Config(ChkCfg(g).level, formatted[g][1].formatter,
                           written[g][1].writer))
            => probeHeld

\* C5: no call invokes Format or Write on an unset formatter or writer.
C5_NoFaultOnUnset ==
    /\ exited # "panic"
    /\ \A g \in Goroutines : pc[g] # "panicked"

\* C6: a call that finds the formatter or the writer unset returns normally,
\* with no Format invocation, no Write invocation and no fault.
C6_InertReturns ==
    \A g \in Goroutines :
        (Checked(g) /\ (ChkCfg(g).formatter = NilFormatter
                        \/ ChkCfg(g).writer = NilWriter))
            => /\ pc[g] = "returned"
               /\ formatted[g] = <<>>
               /\ written[g] = <<>>
               /\ exited = "running"

\* a call on a logger with a formatter but no writer, whose event the
\* threshold lets through
C6_Witness ==
    \E g \in Goroutines :
        /\ Checked(g)
        /\ ChkCfg(g).formatter # NilFormatter
        /\ ChkCfg(g).writer = NilWriter
        /\ dispatched[g].level <= ChkCfg(g).level
        /\ pc[g] = "returned"

\* C7: when Format returns an error the call returns normally: the writer is
\* not invoked, Format is not invoked a second time, the process keeps running.
C7_FormatErrorDrops ==
    \A g \in Goroutines :
        (formatted[g] # <<>> /\ formatted[g][1].result.err)
            => /\ pc[g] = "returned"
               /\ Len(formatted[g]) = 1
               /\ written[g] = <<>>
               /\ exited = "running"

\* the console formatter refused an event whose level is out of range
C7_Witness ==
    \E g \in Goroutines :
        /\ formatted[g] # <<>>
        /\ formatted[g][1].formatter.kind = "console"
        /\ formatted[g][1].result.err
        /\ pc[g] = "returned"

\* C8: an event that passed the filter and was formatted is written exactly
\* once, with the bytes Format returned and the event's level: never more
\* than once, and exactly once when the call has ended.
C8_WrittenExactlyOnce ==
    \A g \in Goroutines :
        /\ Len(written[g]) <= 1
        /\ (Passed(g) /\ FormattedOk(g) /\ Ended(g))
               => /\ Len(written[g]) = 1
                  /\ written[g][1].data = formatted[g][1].result.data
                  /\ written[g][1].level = dispatched[g].level

\* the text "[" code "] " message
Bracketed(code, message) == <<"[">> \o code \o <<"]", " ">> \o message

\* the 3-letter codes of C9
C9_Codes ==
    { <<LevelFatal, <<"F","T","L">> >>, <<LevelError, <<"E","R","R">> >>,
      <<LevelInfo, <<"I","N","F">> >>, <<LevelWarn, <<"W","R","N">> >>,
      <<LevelDebug, <<"D","B","G">> >> }

\* C9: an event dispatched without a "label" key reaches the formatter with
\* the default label of its level (FTL, ERR, INF, WRN, DBG) and with no label
\* for Silent; what a console formatter with labels on and colours and
\* timestamps off returns for it, and what is written, is "[code] message".
C9_DefaultLabel ==
    \A g \in Goroutines :
        ("label" \notin DOMAIN dispatched[g].metadata /\ formatted[g] # <<>>) =>
            LET log == formatted[g][1].log
                f   == formatted[g][1].formatter
                res == formatted[g][1].result
            IN  /\ \A c \in C9_Codes :
                       log.Level = c[1] =>
                           /\ "label" \in DOMAIN log.Metadata
                           /\ log.Metadata["label"] = StringValue(c[2])
                           /\ (f.kind = "console" /\ f.cfg.IncludeLabel
                               /\ ~f.cfg.Colorize /\ ~f.cfg.IncludeTimestamp
                               /\ DOMAIN dispatched[g].metadata = {})
                                  => /\ ~res.err
                                     /\ res.data = Bracketed(c[2],
                                            TrimSuffixNL(dispatched[g].message))
                                     /\ \A i \in DOMAIN written[g] :
                                            written[g][i].data = res.data
                /\ log.Level = LevelSilent => "label" \notin DOMAIN log.Metadata

\* Info("m") without a label has been written as "[INF] m"
C9_Witness ==
    \E g \in Goroutines :
        /\ "label" \notin DOMAIN dispatched[g].metadata
        /\ dispatched[g].level = LevelInfo
        /\ written[g] # <<>>
        /\ written[g][1].data = <<"[", "I", "N", "F", "]", " ", "m">>

\* a Print call without a label reached the formatter unlabelled
C9_WitnessSilent ==
    \E g \in Goroutines :
        /\ "label" \notin DOMAIN dispatched[g].metadata
        /\ dispatched[g].level = LevelSilent
        /\ formatted[g] # <<>>

\* C10: the label of an event dispatched with a "label" key (the empty
\* label included) is the same at every later point of the call, and is the
\* label the formatter receives.
C10_ExplicitLabelKept ==
    \A g \in Goroutines :
        "label" \in DOMAIN dispatched[g].metadata =>
            /\ "label" \in DOMAIN event[g].metadata
            /\ event[g].metadata["label"] = dispatched[g].metadata["label"]
            /\ \A i \in DOMAIN formatted[g] :
                   formatted[g][i].log.Metadata["label"]
                       = dispatched[g].metadata["label"]

\* an Info event dispatched with the empty label has been formatted
C10_Witness ==
    \E g \in Goroutines :
        /\ "label" \in DOMAIN dispatched[g].metadata
        /\ dispatched[g].metadata["label"] = StringValue(<<>>)
        /\ dispatched[g].level = LevelInfo
        /\ formatted[g] # <<>>


(***************************************************************************)
(* The entry points on their own (logger.go 183-257)                       *)
(***************************************************************************)
\* every variable of the Logger's state machine
machineVars == << level, formatter, writer, rlock, pc, dispatched, event, chk,
                  formatted, written, exited, probe, probeHeld,
                  consoleWriterVars, sliceVars >>

\* an entry point that puts its own options before the caller's
Logger_Warn_Prepend(message, ofs) ==
    _NewEvent(<< _WithLevel(LevelWarn), _WithMessage(message) >> \o ofs)

\* the event each entry point hands to l.Log
Logger_Fatal(message, ofs) ==
    _NewEvent(ofs \o << _WithLevel(LevelFatal), _WithMessage(message) >>)
Logger_Print(message, ofs) ==
    _NewEvent(ofs \o << _WithLevel(LevelSilent), _WithMessage(message) >>)
Logger_Error(message, ofs) ==
    _NewEvent(ofs \o << _WithLevel(LevelError), _WithMessage(message) >>)
Logger_Info(message, ofs) ==
    _NewEvent(ofs \o << _WithLevel(LevelInfo), _WithMessage(message) >>)
Logger_Warn(message, ofs) ==
    _NewEvent(ofs \o << _WithLevel(LevelWarn), _WithMessage(message) >>)
Logger_Debug(message, ofs) ==
    _NewEvent(ofs \o << _WithLevel(LevelDebug), _WithMessage(message) >>)

\* the level constant of each entry point
EntryConstant ==
    [ n \in { "Fatal", "Print", "Error", "Info", "Warn", "Debug" } |->
        CASE n = "Fatal" -> LevelFatal
          [] n = "Print" -> LevelSilent
          [] n = "Error" -> LevelError
          [] n = "Info"  -> LevelInfo
          [] n = "Warn"  -> LevelWarn
          [] n = "Debug" -> LevelDebug ]

\* an OptionFunc is any func(*_Event): a caller's option may call SetLevel or
\* SetMessage itself, which is what _WithLevel and _WithMessage do
HostileOptions == { _WithLevel(LevelDebug), _WithLevel(BelowRange),
                    _WithMessage(<< "x" >>) }
EntryOptionLists == SeqsUpTo(CallerOptions \cup HostileOptions, MaxOpts)
EntryMessages == Messages \cup { <<>> }

EntryInit ==
    /\ LoggerInit
    /\ call \in [ op : {"entry"}, message : EntryMessages, ofs : EntryOptionLists ]
    /\ ret = <<>>

\* one entry point builds its event from the call's arguments
Built(name, e) ==
    /\ call.op = "entry"
    /\ name \notin DOMAIN ret
    /\ ret' = [ n \in DOMAIN ret \cup {name} |-> IF n = name THEN e ELSE ret[n] ]
    /\ UNCHANGED << machineVars, call >>

CallFatal == Built("Fatal", Logger_Fatal(call.message, call.ofs))
CallPrint == Built("Print", Logger_Print(call.message, call.ofs))
CallError == Built("Error", Logger_Error(call.message, call.ofs))
CallInfo  == Built("Info", Logger_Info(call.message, call.ofs))
CallWarn  == Built("Warn", Logger_Warn(call.message, call.ofs))
CallDebug == Built("Debug", Logger_Debug(call.message, call.ofs))

EntryNext ==
    \/ CallFatal
    \/ CallPrint
    \/ CallError
    \/ CallInfo
    \/ CallWarn
    \/ CallDebug

EntrySpec == EntryInit /\ [][EntryNext]_vars

\* C11: for every entry point and every list of caller options, the event
\* handed to Log carries the entry point's level constant (Silent for Print)
\* and the message argument, whatever the caller's options set, and the events
\* of any two entry points differ in nothing but the level.
C11_EntryPointsFixLevel ==
    call.op = "entry" =>
        /\ \A n \in DOMAIN ret :
              /\ ret[n].level = EntryConstant[n]
              /\ ret[n].message = call.message
        /\ \A n1, n2 \in DOMAIN ret :
              [ ret[n1] EXCEPT !.level = LevelFatal ]
                  = [ ret[n2] EXCEPT !.level = LevelFatal ]

\* all six entry points have run on a list holding a caller's level option
C11_Witness ==
    /\ call.op = "entry"
    /\ DOMAIN ret = DOMAIN EntryConstant
    /\ \E i \in DOMAIN call.ofs : call.ofs[i].op = "_WithLevel"
    /\ ret["Warn"].level = LevelWarn


(***************************************************************************)
(* Message normalization on its own (logger.go 296, 555-557)               *)
(***************************************************************************)
\* longest message given to the normalization
MaxLen == 3
CR == "\r"
NormMessages == SeqsUpTo({ "m", NL, CR }, MaxLen)

NormInit ==
    /\ LoggerInit
    /\ call \in [ op : {"normalize"}, message : NormMessages ]
    /\ ret = <<>>

\* Logger.Log line 296: event.message = strings.TrimSuffix(event.message, "\n")
LogTrim ==
    /\ call.op = "normalize"
    /\ ret = <<>>
    /\ ret' = << TrimSuffixNL(call.message) >>
    /\ UNCHANGED << machineVars, call >>

\* Console.Format line 555: strings.TrimSuffix(log.Message, "\n") on the
\* message Log has normalized
FormatTrim ==
    /\ call.op = "normalize"
    /\ Len(ret) = 1
    /\ ret' = Append(ret, TrimSuffixNL(ret[1]))
    /\ UNCHANGED << machineVars, call >>

NormNext ==
    \/ LogTrim
    \/ FormatTrim

NormSpec == NormInit /\ [][NormNext]_vars

\* C12: normalizing a message that is already normalized leaves it unchanged
\* (idempotence); a message without a trailing line break is unchanged and a
\* message with exactly one trailing line break loses it.
C12_NormalizeIdempotent ==
    call.op = "normalize" =>
        /\ Len(ret) >= 1 =>
              /\ (call.message = <<>> \/ call.message[Len(call.message)] # NL)
                    => ret[1] = call.message
              /\ (call.message # <<>> /\ call.message[Len(call.message)] = NL)
                    => ret[1] = SubSeq(call.message, 1, Len(call.message) - 1)
        /\ Len(ret) = 2 => ret[2] = ret[1]


(***************************************************************************)
(* Console.Format on its own (logger.go 500-594)                           *)
(***************************************************************************)
\* most options on the event that is formatted
MaxFormatOpts == 2

FormatOptions ==
    { WithLabel(<<"L">>), WithoutLabel, WithString("k", <<"1">>),
      WithString("k", <<"2">>), WithError(<<"e">>), WithoutTimestamp }
FormatOptionLists == SeqsUpTo(FormatOptions, MaxFormatOpts)
FormatMessages == { <<>>, <<"m">>, <<"m", NL>>, <<"m", NL, NL>> }
FormatLevels == { BelowRange, LevelSilent, LevelInfo }

\* configurations of the console formatter: every combination of the three
\* switches with the Aurora colorizer, and the default configuration
FormatConfigs ==
    [ IncludeTimestamp : BOOLEAN, IncludeLabel : BOOLEAN,
      Colorize : BOOLEAN, Colorizer : {"aurora"} ]
    \cup { DefaultConsoleConfig }

FormatInit ==
    /\ LoggerInit
    /\ call \in [ op : {"format"}, cfg : FormatConfigs, level : FormatLevels,
                  message : FormatMessages, ofs : FormatOptionLists ]
    /\ ret = <<>>

\* the event of the call, as _NewEvent returns it
CallEvent == _NewEvent(call.ofs \o << _WithLevel(call.level), _WithMessage(call.message) >>)

\* the caller hands the event's fields to Format as they are
DirectLog ==
    /\ call.op = "format"
    /\ ret = <<>>
    /\ ret' = << FormatterLog(CallEvent) >>
    /\ UNCHANGED << machineVars, call >>

\* Logger.Log lines 282-303: default label, normalization, the Log record
LoggerLog ==
    /\ call.op = "format"
    /\ ret = <<>>
    /\ ret' = << FormatterLog(Normalize(DefaultLabel(CallEvent))) >>
    /\ UNCHANGED << machineVars, call >>

\* Console.Format on the record, for some iteration order of the metadata
ConsoleFormatCall ==
    /\ call.op = "format"
    /\ Len(ret) = 1
    /\ \E r \in ConsoleFormatResults(call.cfg, ret[1]) : ret' = Append(ret, r)
    /\ UNCHANGED << machineVars, call >>

FormatNext ==
    \/ DirectLog
    \/ LoggerLog
    \/ ConsoleFormatCall

FormatSpec == FormatInit /\ [][FormatNext]_vars

\* Format has returned bytes and no error
Formatted == call.op = "format" /\ Len(ret) = 2 /\ ~ret[2].err
\* the record given to Format and the bytes it returned
InLog == ret[1]
Out == ret[2].data

\* text t ends with / contains / holds n times the text u
EndsWith(t, u) ==
    Len(t) >= Len(u) /\ SubSeq(t, Len(t) - Len(u) + 1, Len(t)) = u
Occurrences(t, u) ==
    { i \in 1..(Len(t) - Len(u) + 1) : SubSeq(t, i, i + Len(u) - 1) = u }
Contains(t, u) == Occurrences(t, u) # {}

\* C13: for every event and every configuration the bytes Format returns do
\* not end with a line break.
C13_NoTrailingLineBreak ==
    Formatted => ~EndsWith(Out, << NL >>)


\* the record given to Format has a non-nil "error" entry
HasError ==
    /\ Formatted
    /\ "error" \in DOMAIN InLog.Metadata
    /\ InLog.Metadata["error"].t # "nil"
ErrorText == InLog.Metadata["error"].v

\* C14: when the metadata has a non-nil "error" entry, the key=value loop
\* leaves it out: the output holds no " error=<value>" pair and the error's
\* text appears once, in the error block.
C14_ErrorNotInLoop ==
    HasError =>
        /\ ~Contains(Out, << " ", "error", "=" >>)
        /\ Cardinality(Occurrences(Out, ErrorText)) = 1

\* the output before the error block
BeforeErrorBlock == SubSeq(Out, 1, Len(Out) - Len(ErrorText) - 2)

ShownLabel ==
    IF call.cfg.Colorize
    THEN Colorize(call.cfg.Colorizer, InLog.Metadata["label"].v, InLog.Level)
    ELSE InLog.Metadata["label"].v

\* the record has a label that Format renders in brackets
LabelRendered ==
    /\ "label" \in DOMAIN InLog.Metadata
    /\ InLog.Metadata["label"].t = "string"
    /\ InLog.Metadata["label"].v # <<>>
    /\ call.cfg.IncludeLabel

\* C16: the "label" entry is never emitted as a key=value pair: a non-empty
\* label with label rendering enabled appears as "[label] " right before the
\* message and nowhere else; an empty label, or any label with label rendering
\* disabled, leaves the output as it is for the same record without a label.
C16_LabelNeverGeneric ==
    Formatted =>
        /\ ~Contains(Out, << " ", "label", "=" >>)
        /\ IF LabelRendered
           THEN Contains(Out, << "[" >> \o ShownLabel \o << "]", " " >>
                              \o TrimSuffixNL(InLog.Message))
           ELSE Out \in { r.data : r \in ConsoleFormatResults(call.cfg,
                            [ InLog EXCEPT !.Metadata = MapDelete(@, "label") ]) }

\* the entries the key=value loop is to render
GenericKeys ==
    { k \in DOMAIN InLog.Metadata \ { "label", "error" } :
        k # "" /\ InLog.Metadata[k].t # "nil" }
Pair(k) == << " ", k, "=" >> \o InLog.Metadata[k].v

\* the value the last WithString option for key k in the call's options set
RECURSIVE LastSet(_, _)
LastSet(ofs, k) ==
    IF ofs = <<>> THEN <<>>
    ELSE LET o == ofs[Len(ofs)]
         IN  IF o.op = "WithString" /\ o.key = k THEN << o.value >>
             ELSE LastSet(SubSeq(ofs, 1, Len(ofs) - 1), k)

\* C17: every metadata entry other than "label" and "error" appears exactly
\* once in the output, after the message, as " key=value"; with one such entry
\* and no error the output ends with " key=value"; the value rendered for a
\* key set several times is the last one set.
C17_EachEntryOnce ==
    Formatted =>
        /\ \A k \in GenericKeys :
              /\ Cardinality(Occurrences(Out, Pair(k))) = 1
              /\ \E i \in Occurrences(Out, TrimSuffixNL(InLog.Message)) :
                    \A j \in Occurrences(Out, Pair(k)) :
                        i + Len(TrimSuffixNL(InLog.Message)) <= j
              /\ LastSet(call.ofs, k) = << InLog.Metadata[k].v >>
        /\ (Cardinality(GenericKeys) = 1 /\ "error" \notin DOMAIN InLog.Metadata)
              => \A k \in GenericKeys : EndsWith(Out, Pair(k))

\* C19 as stated: the output contains the message as given, and with
\* colorization disabled it holds no escape sequence (the inputs hold none).
C19_MessageVerbatim ==
    Formatted =>
        /\ Contains(Out, InLog.Message)
        /\ ~call.cfg.Colorize => ~Contains(Out, << ESC >>)

\* C19: the output contains the message with one trailing line break removed,
\* if it had one, and with colorization disabled it holds no escape sequence
\* (the inputs hold none): the Colorizer has not been applied.
C19_MessageTrimmedNoEscapes ==
    Formatted =>
        /\ Contains(Out, TrimSuffixNL(InLog.Message))
        /\ ~call.cfg.Colorize => ~Contains(Out, << ESC >>)

\* a label has been rendered in brackets, uncoloured, by a formatter whose
\* colorizer adds escape sequences at the event's level, before a message that
\* ended in a line break
C19_Witness ==
    /\ Formatted
    /\ ~call.cfg.Colorize
    /\ call.cfg.Colorizer = "aurora"
    /\ InLog.Level = LevelInfo
    /\ LabelRendered
    /\ InLog.Message = << "m", NL >>
    /\ Contains(Out, << "[", "L", "]", " ", "m" >>)


(***************************************************************************)
(* The colorizers on their own (aurora.go 39-56, fatih.go 53-70)           *)
(***************************************************************************)
ColorTexts == SeqsUpTo({ "t", "m" }, MaxLen)
\* Level is an int: the declared levels and one value on each side of them
ColorLevels == BelowRange..(LevelDebug + 1)

ColorInit ==
    /\ LoggerInit
    /\ call \in [ op : {"colorize"}, text : ColorTexts, level : ColorLevels ]
    /\ ret = <<>>

\* one colorizer returns its text for the call's arguments
Colorized(name, out) ==
    /\ call.op = "colorize"
    /\ name \notin DOMAIN ret
    /\ ret' = [ n \in DOMAIN ret \cup {name} |-> IF n = name THEN out ELSE ret[n] ]
    /\ UNCHANGED << machineVars, call >>

CallAurora == Colorized("aurora", Colorize("aurora", call.text, call.level))
CallFatih  == Colorized("fatih", Colorize("fatih", call.text, call.level))

ColorNext ==
    \/ CallAurora
    \/ CallFatih

ColorSpec == ColorInit /\ [][ColorNext]_vars

\* reading a colorized text back: the end of its opening escape sequence, the
\* start of its closing one, the codes of each and the text between them
OpenEnd(out) == CHOOSE i \in 2..Len(out) :
                    out[i] = "m" /\ \A j \in 2..(i - 1) : out[j] # "m"
CloseStart(out) == CHOOSE i \in 1..Len(out) :
                    out[i] = ESC /\ \A j \in (i + 1)..Len(out) : out[j] # ESC
IsStyled(out) ==
    /\ Len(out) >= 2
    /\ out[1] = ESC
    /\ \E i \in 2..Len(out) : out[i] = "m"
    /\ CloseStart(out) > OpenEnd(out)
    /\ out[Len(out)] = "m"
OpenCodes(out) == { out[j] : j \in 2..(OpenEnd(out) - 1) } \ { ";" }
CloseCodes(out) == { out[j] : j \in (CloseStart(out) + 1)..(Len(out) - 1) } \ { ";" }
Payload(out) == SubSeq(out, OpenEnd(out) + 1, CloseStart(out) - 1)

\* the level-to-style table the claim states
StyleTable ==
    [ l \in { LevelFatal, LevelError, LevelInfo, LevelWarn, LevelDebug } |->
        CASE l = LevelFatal -> { BrightRed, Bold }
          [] l = LevelError -> { BrightRed, Bold }
          [] l = LevelInfo  -> { BrightBlue, Bold }
          [] l = LevelWarn  -> { BrightYellow, Bold }
          [] l = LevelDebug -> { BrightMagenta, Bold } ]

\* C18: for every level value, each of the two colorizers returns the text in
\* bright red bold for Fatal and Error, bright blue bold for Info, bright
\* yellow bold for Warn and bright magenta bold for Debug, closed by a reset,
\* and returns the text unchanged for Silent and for every level outside the
\* declared range.
C18_SameStyleTable ==
    call.op = "colorize" =>
        \A n \in DOMAIN ret :
            IF call.level \in DOMAIN StyleTable
            THEN /\ IsStyled(ret[n])
                 /\ OpenCodes(ret[n]) = StyleTable[call.level]
                 /\ Payload(ret[n]) = call.text
                 /\ CloseCodes(ret[n]) \subseteq { Reset, ResetBold }
                 /\ Reset \in CloseCodes(ret[n])
            ELSE ret[n] = call.text

\* both colorizers have styled a text that holds an "m" at the Warn level
C18_Witness ==
    /\ call.op = "colorize"
    /\ DOMAIN ret = { "aurora", "fatih" }
    /\ call.level = LevelWarn
    /\ call.text = << "t", "m" >>
    /\ ret["aurora"] # ret["fatih"]
    /\ Payload(ret["aurora"]) = Payload(ret["fatih"])


(***************************************************************************)
(* A logger whose threshold is LevelSilent                                 *)
(***************************************************************************)
\* the Logger after SetLevel(LevelSilent), SetFormatter(console formatter) and
\* SetWriter(wA), with no call in progress
SilentLogger ==
    Config(LevelSilent, NewConsoleFormatter(PlainConsoleConfig), "wA")

SilentInit ==
    /\ level = SilentLogger.level
    /\ formatter = SilentLogger.formatter
    /\ writer = SilentLogger.writer
    /\ rlock = {}
    /\ pc = [g \in Goroutines |-> "idle"]
    /\ dispatched = [g \in Goroutines |-> NoEvent]
    /\ event = [g \in Goroutines |-> NoEvent]
    /\ chk = [g \in Goroutines |-> <<>>]
    /\ formatted = [g \in Goroutines |-> <<>>]
    /\ written = [g \in Goroutines |-> <<>>]
    /\ exited = "running"
    /\ probe \in ProbeConfigs
    /\ probeHeld = (probe = SilentLogger)
    /\ ConsoleWriterInit
    /\ SliceInit
    /\ call = NoCall
    /\ ret = <<>>

\* entry point calls on that logger; no setter is called
SilentNext ==
    \/ \E g \in Goroutines : EntryPoint(g)
    \/ \E g \in Goroutines : LogRLock(g)
    \/ \E g \in Goroutines : LogCheck(g)
    \/ \E g \in Goroutines : LogPrepare(g)
    \/ \E g \in Goroutines : LogFormat(g)
    \/ \E g \in Goroutines : LogWrite(g)
    \/ \E g \in Goroutines : LogWriteReturn(g)
    \/ \E g \in Goroutines : LogFinish(g)

SilentSpec == SilentInit /\ [][SilentNext]_vars

\* C20: with LevelSilent as the logger's threshold no entry point call, of
\* whatever severity, reaches the writer.
C20_SilentEmitsNothing ==
    level = LevelSilent => \A g \in Goroutines : written[g] = <<>>


\* C21: a Fatal call on a logger whose formatter and writer are both set is
\* never filtered out by the threshold, whatever level SetLevel was given: the
\* call passes the check of line 274.
C21_FatalNeverFiltered ==
    \A g \in Goroutines :
        ( /\ Checked(g)
          /\ dispatched[g].level = LevelFatal
          /\ ChkCfg(g).formatter # NilFormatter
          /\ ChkCfg(g).writer # NilWriter )
            => Passed(g)


(***************************************************************************)
(* writer.MultiWriter (writer.go 32-73, 113-125)                           *)
(***************************************************************************)
\* most writers given to NewMultiWriter
MaxWriters == 3

\* a Writer given to NewMultiWriter: nil, or one whose Write and whose Close
\* each succeed or fail
NilUnderlying == [ kind |-> "nil" ]
UnderlyingWriters ==
    { NilUnderlying }
    \cup [ kind : {"writer"}, failsWrite : BOOLEAN, failsClose : BOOLEAN ]
NoError == << >>
\* the error the writer at position arg of the argument list returns
ErrorOf(arg, op) == << op, arg >>

MultiInit ==
    /\ LoggerInit
    /\ call \in [ op : {"multi"}, writers : SeqsUpTo(UnderlyingWriters, MaxWriters),
                  data : { << "d" >> }, level : { LevelSilent, LevelError } ]
    /\ ret = <<>>

\* NewMultiWriter: the non-nil writers, in the order given, each with its
\* position in the argument list
RECURSIVE NonNilFrom(_, _)
NonNilFrom(writers, i) ==
    IF i > Len(writers) THEN <<>>
    ELSE (IF writers[i] # NilUnderlying
          THEN << [ arg |-> i, failsWrite |-> writers[i].failsWrite,
                    failsClose |-> writers[i].failsClose ] >>
          ELSE <<>>)
         \o NonNilFrom(writers, i + 1)
NewMultiWriter(writers) == [ writers |-> NonNilFrom(writers, 1) ]

\* what one underlying writer returns from Write / Close
WriterWrite(w) == IF w.failsWrite THEN ErrorOf(w.arg, "Write") ELSE NoError
WriterClose(w) == IF w.failsClose THEN ErrorOf(w.arg, "Close") ELSE NoError

\* a loop that stops at the first writer that fails
WriteInvocations_StopAtError(m, data, lvl) ==
    LET failing == { j \in DOMAIN m.writers : m.writers[j].failsWrite }
        last == IF failing = {} THEN Len(m.writers)
                ELSE CHOOSE j \in failing : \A k \in failing : j <= k
    IN  [ j \in 1..last |->
            [ writer |-> m.writers[j].arg, data |-> data, level |-> lvl ] ]

\* for _, writer := range m.writers { writer.Write(data, level) }: the calls made
WriteInvocations(m, data, lvl) ==
    [ j \in 1..Len(m.writers) |->
        [ writer |-> m.writers[j].arg, data |-> data, level |-> lvl ] ]

\* for _, writer := range m.writers { writer.Close() }: the calls made
CloseInvocations(m) ==
    [ j \in 1..Len(m.writers) |-> [ writer |-> m.writers[j].arg ] ]

\* err = writer.Write(data, level) in every iteration: the value of err after
\* the loop over the given writers, starting from err
RECURSIVE WriteLoopErr(_, _)
WriteLoopErr(writers, err) ==
    IF writers = <<>> THEN err
    ELSE WriteLoopErr(Tail(writers), WriterWrite(Head(writers)))

\* err = writer.Close() in every iteration
RECURSIVE CloseLoopErr(_, _)
CloseLoopErr(writers, err) ==
    IF writers = <<>> THEN err
    ELSE CloseLoopErr(Tail(writers), WriterClose(Head(writers)))

\* MultiWriter.Write and MultiWriter.Close: the calls made and the result
MultiWrite(m, data, lvl) ==
    [ op |-> "Write", invoked |-> WriteInvocations(m, data, lvl),
      err |-> WriteLoopErr(m.writers, NoError) ]
MultiClose(m) ==
    [ op |-> "Close", invoked |-> CloseInvocations(m),
      err |-> CloseLoopErr(m.writers, NoError) ]

\* ret[1] is the MultiWriter, the later elements the calls made on it
NewMultiWriterCall ==
    /\ call.op = "multi"
    /\ ret = <<>>
    /\ ret' = << NewMultiWriter(call.writers) >>
    /\ UNCHANGED << machineVars, call >>

MultiWriteCall ==
    /\ call.op = "multi"
    /\ Len(ret) \in 1..2
    /\ ret' = Append(ret, MultiWrite(ret[1], call.data, call.level))
    /\ UNCHANGED << machineVars, call >>

MultiCloseCall ==
    /\ call.op = "multi"
    /\ Len(ret) \in 1..2
    /\ ret' = Append(ret, MultiClose(ret[1]))
    /\ UNCHANGED << machineVars, call >>

MultiNext ==
    \/ NewMultiWriterCall
    \/ MultiWriteCall
    \/ MultiCloseCall

MultiSpec == MultiInit /\ [][MultiNext]_vars

\* the positions of the non-nil writers in the argument list, and among them
\* those whose Write / Close fails
NonNilArgs == { i \in DOMAIN call.writers : call.writers[i] # NilUnderlying }
FailingArgs(op) ==
    { i \in NonNilArgs : IF op = "Write" THEN call.writers[i].failsWrite
                         ELSE call.writers[i].failsClose }
MaxOf(S) == CHOOSE i \in S : \A j \in S : j <= i

\* C22: Write and Close return the last non-nil error any underlying writer
\* produced: the error of the last failing writer if some writer fails, also
\* when a later writer succeeds, and nil only when none fails.
C22_LastNonNilError ==
    call.op = "multi" =>
        \A n \in 2..Len(ret) :
            IF FailingArgs(ret[n].op) = {}
            THEN ret[n].err = NoError
            ELSE ret[n].err = ErrorOf(MaxOf(FailingArgs(ret[n].op)), ret[n].op)

\* C23: Write and Close invoke every non-nil underlying writer exactly once,
\* in the order of the argument list, Write with the data and the level of
\* the call, whether or not an earlier writer failed.
C23_EveryWriterOnceInOrder ==
    call.op = "multi" =>
        \A n \in 2..Len(ret) :
            LET inv == ret[n].invoked
            IN  /\ Len(inv) = Cardinality(NonNilArgs)
                /\ { inv[j].writer : j \in DOMAIN inv } = NonNilArgs
                /\ \A j, k \in DOMAIN inv : j < k => inv[j].writer < inv[k].writer
                /\ ret[n].op = "Write" =>
                      \A j \in DOMAIN inv : /\ inv[j].data = call.data
                                            /\ inv[j].level = call.level

\* Write and Close have both run on a MultiWriter built from a failing
\* writer, a nil and a succeeding writer: two writers were invoked each time
C23_Witness ==
    /\ call.op = "multi"
    /\ Len(ret) = 3
    /\ { ret[2].op, ret[3].op } = { "Write", "Close" }
    /\ Len(call.writers) = 3
    /\ call.writers[1] # NilUnderlying /\ call.writers[1].failsWrite
                                   /\ call.writers[1].failsClose
    /\ call.writers[2] = NilUnderlying
    /\ call.writers[3] # NilUnderlying /\ ~call.writers[3].failsWrite
    /\ Len(ret[2].invoked) = 2
    /\ ret[2].invoked[2].writer = 3


(***************************************************************************)
(* writer.Console (fatih.go 123-282, package writer)                       *)
(***************************************************************************)
\* the variables of the Logger alone
logOnlyVars == << level, formatter, writer, rlock, pc, dispatched, event, chk,
                 formatted, written, exited, probe, probeHeld >>

\* DefaultConsoleWriterConfig
DefaultConsoleWriterConfig ==
    [ ForceStderr |-> FALSE, ForceStdout |-> FALSE, DisableNewline |-> FALSE ]
ConsoleWriterConfigs ==
    [ ForceStderr : BOOLEAN, ForceStdout : BOOLEAN, DisableNewline : BOOLEAN ]

\* the arguments of a Write call
WriteArgs ==
    [ data : { << "a" >>, << "a", NL >> },
      level : { LevelFatal, LevelSilent, LevelDebug + 1 } ]

ConsoleWriterSpecInit ==
    /\ LoggerInit
    /\ call \in [ op : {"console"}, cfg : ConsoleWriterConfigs,
                  args : [ WriterGoroutines -> WriteArgs ] ]
    /\ ret = [ g \in WriterGoroutines |-> NoError ]

\* a switch in which ForceStdout is tested first
Stream_StdoutFirst(cfg, lvl) ==
    CASE cfg.ForceStdout -> "stdout"
      [] cfg.ForceStderr /\ ~cfg.ForceStdout -> "stderr"
      [] ~cfg.ForceStderr /\ ~cfg.ForceStdout /\ lvl = LevelSilent -> "stdout"
      [] OTHER -> "stderr"

\* lines 156-165: the switch that picks the stream
Stream(cfg, lvl) ==
    CASE cfg.ForceStderr -> "stderr"
      [] ~cfg.ForceStderr /\ cfg.ForceStdout -> "stdout"
      [] ~cfg.ForceStderr /\ ~cfg.ForceStdout /\ lvl = LevelSilent -> "stdout"
      [] OTHER -> "stderr"

\* a mutex that never makes a caller wait
CanLock_Always(m) == TRUE

\* line 152: c.mutex.Lock() returns once the mutex is free
CanLock(m) == m = "free"

\* writer.Write(bytes) on the chosen stream, by goroutine g
StreamWrite(g, kind, bytes) ==
    LET entry == [ by |-> g, kind |-> kind, bytes |-> bytes ]
    IN  IF Stream(call.cfg, call.args[g].level) = "stdout"
        THEN stdout' = Append(stdout, entry) /\ UNCHANGED stderr
        ELSE stderr' = Append(stderr, entry) /\ UNCHANGED stdout

\* line 152: c.mutex.Lock()
ConsoleLock(g) ==
    /\ call.op = "console"
    /\ wpc[g] = "idle"
    /\ CanLock(mutex)
    /\ mutex' = g
    /\ wpc' = [wpc EXCEPT ![g] = "data"]
    /\ UNCHANGED << logOnlyVars, sliceVars, call, ret, stdout, stderr >>

\* line 167: writer.Write(data); on an error the call returns
ConsoleWriteData(g) ==
    /\ call.op = "console"
    /\ wpc[g] = "data"
    /\ \/ /\ StreamWrite(g, "data", call.args[g].data)
          /\ wpc' = [wpc EXCEPT ![g] = IF call.cfg.DisableNewline
                                       THEN "unlock" ELSE "newline"]
          /\ UNCHANGED ret
       \/ /\ ret' = [ret EXCEPT ![g] = ErrorOf(g, "data")]
          /\ wpc' = [wpc EXCEPT ![g] = "unlock"]
          /\ UNCHANGED << stdout, stderr >>
    /\ UNCHANGED << logOnlyVars, sliceVars, call, mutex >>

\* lines 171-175: writer.Write([]byte("\n")) unless DisableNewline
ConsoleWriteNewline(g) ==
    /\ call.op = "console"
    /\ wpc[g] = "newline"
    /\ \/ /\ StreamWrite(g, "newline", << NL >>)
          /\ UNCHANGED ret
       \/ /\ ret' = [ret EXCEPT ![g] = ErrorOf(g, "newline")]
          /\ UNCHANGED << stdout, stderr >>
    /\ wpc' = [wpc EXCEPT ![g] = "unlock"]
    /\ UNCHANGED << logOnlyVars, sliceVars, call, mutex >>

\* line 153: defer c.mutex.Unlock(), at the return
ConsoleUnlock(g) ==
    /\ call.op = "console"
    /\ wpc[g] = "unlock"
    /\ mutex' = "free"
    /\ wpc' = [wpc EXCEPT ![g] = "done"]
    /\ UNCHANGED << logOnlyVars, sliceVars, call, ret, stdout, stderr >>

ConsoleWriterNext ==
    \/ \E g \in WriterGoroutines : ConsoleLock(g)
    \/ \E g \in WriterGoroutines : ConsoleWriteData(g)
    \/ \E g \in WriterGoroutines : ConsoleWriteNewline(g)
    \/ \E g \in WriterGoroutines : ConsoleUnlock(g)

ConsoleWriterSpec == ConsoleWriterSpecInit /\ [][ConsoleWriterNext]_vars

\* what goroutine g has written to a stream, in order
RECURSIVE WrittenBy(_, _)
WrittenBy(stream, g) ==
    IF stream = <<>> THEN <<>>
    ELSE (IF Head(stream).by = g THEN Head(stream).bytes ELSE <<>>)
         \o WrittenBy(Tail(stream), g)

\* C24: a Write call that returns no error has sent its data to standard
\* output if ForceStderr is unset and either ForceStdout is set or the level is
\* Silent, and to standard error otherwise, followed by exactly one newline
\* unless DisableNewline is set; it has sent nothing to the other stream.
C24_StreamAndNewline ==
    call.op = "console" =>
        \A g \in WriterGoroutines :
            (wpc[g] = "done" /\ ret[g] = NoError) =>
                LET a == call.args[g]
                    toStdout == /\ ~call.cfg.ForceStderr
                                /\ (call.cfg.ForceStdout \/ a.level = LevelSilent)
                    sent == a.data \o (IF call.cfg.DisableNewline
                                       THEN <<>> ELSE << NL >>)
                IN  /\ WrittenBy(stdout, g) = (IF toStdout THEN sent ELSE <<>>)
                    /\ WrittenBy(stderr, g) = (IF toStdout THEN <<>> ELSE sent)

\* with both ForceStderr and ForceStdout set, a Silent-level Write has
\* returned after sending its data and one newline to standard error
C24_Witness ==
    /\ call.op = "console"
    /\ call.cfg.ForceStderr /\ call.cfg.ForceStdout /\ ~call.cfg.DisableNewline
    /\ \E g \in WriterGoroutines :
          /\ wpc[g] = "done" /\ ret[g] = NoError
          /\ call.args[g].level = LevelSilent
          /\ WrittenBy(stderr, g) = call.args[g].data \o << NL >>

\* the data and the newline of one call are neighbours in the stream
Contiguous(stream) ==
    /\ \A i \in DOMAIN stream :
          stream[i].kind = "newline" =>
              /\ i > 1
              /\ stream[i - 1].kind = "data"
              /\ stream[i - 1].by = stream[i].by
    /\ \A g \in WriterGoroutines :
          (wpc[g] = "newline" /\ Stream(call.cfg, call.args[g].level) = "stdout"
                              /\ stream = stdout)
              => stream[Len(stream)] = [ by |-> g, kind |-> "data",
                                         bytes |-> call.args[g].data ]
    /\ \A g \in WriterGoroutines :
          (wpc[g] = "newline" /\ Stream(call.cfg, call.args[g].level) = "stderr"
                              /\ stream = stderr)
              => stream[Len(stream)] = [ by |-> g, kind |-> "data",
                                         bytes |-> call.args[g].data ]

\* C25: concurrent Write calls on one console writer are serialized: at most
\* one call is between Lock and Unlock, and in each stream the data of a call
\* and its newline are neighbours, with nothing of another call between them.
C25_WritesSerialized ==
    call.op = "console" =>
        /\ Cardinality({ g \in WriterGoroutines :
                           wpc[g] \in { "data", "newline", "unlock" } }) <= 1
        /\ Contiguous(stdout)
        /\ Contiguous(stderr)

\* two calls have written data and newline to the same stream, one after the
\* other
C25_Witness ==
    /\ call.op = "console"
    /\ \A g \in WriterGoroutines : wpc[g] = "done"
    /\ Len(stderr) = 4
    /\ stderr[1].by = stderr[2].by
    /\ stderr[3].by = stderr[4].by
    /\ stderr[1].by # stderr[3].by


(***************************************************************************)
(* Level: String, MarshalText, UnmarshalText (levels.go 21-92)             *)
(***************************************************************************)
Unknown == << "u","n","k","n","o","w","n" >>

\* Level.String
LevelString(l) == IF l < 0 \/ l >= Len(s) THEN Unknown ELSE s[l + 1]

\* Level.MarshalText
MarshalText(l) == [ bytes |-> LevelString(l), err |-> NoError ]

\* ErrUnknownLevel = errors.New("unknown level"): the sentinel and its text
ErrUnknownLevel == "ErrUnknownLevel"
ErrUnknownLevelText == << "u","n","k","n","o","w","n"," ","l","e","v","e","l" >>

\* the %s rendering of an array of strings: "[a b c]"
RECURSIVE JoinSpace(_)
JoinSpace(names) ==
    IF names = <<>> THEN <<>>
    ELSE IF Len(names) = 1 THEN names[1]
    ELSE names[1] \o << " " >> \o JoinSpace(Tail(names))
SprintArray(names) == << "[" >> \o JoinSpace(names) \o << "]" >>

\* line 48: fmt.Errorf("%w (%s)", ErrUnknownLevel, s)
UnknownLevelError ==
    [ wraps |-> ErrUnknownLevel,
      message |-> ErrUnknownLevelText \o << " ", "(" >> \o SprintArray(s) \o << ")" >> ]

\* the indices of s whose name is the text
Matches(text) == { i \in DOMAIN s : s[i] = text }

\* Level.UnmarshalText on a receiver holding l: the receiver afterwards and
\* the error; the loop returns at the first name that equals the text
UnmarshalText(l, text) ==
    IF Matches(text) # {}
    THEN [ level |-> (CHOOSE i \in Matches(text) : \A j \in Matches(text) : i <= j) - 1,
           err |-> NoError ]
    ELSE [ level |-> l, err |-> UnknownLevelError ]

\* texts given to UnmarshalText: the six names and texts that are no name
LevelTexts ==
    { s[i] : i \in DOMAIN s }
    \cup { <<>>, Unknown, << "F","a","t","a","l" >>, << "x" >>, << "w","a","r","n"," " >> }
\* Level is an int
LevelValues == BelowRange..(LevelDebug + 1)

LevelsInit ==
    /\ LoggerInit
    /\ call \in [ op : {"levels"}, level : LevelValues, text : LevelTexts,
                  receiver : { LevelFatal, LevelDebug } ]
    /\ ret = <<>>

\* one function of the package returns its result for the call's arguments
Returned(name, result) ==
    /\ call.op = "levels"
    /\ name \notin DOMAIN ret
    /\ ret' = [ n \in DOMAIN ret \cup {name} |-> IF n = name THEN result ELSE ret[n] ]
    /\ UNCHANGED << machineVars, call >>

\* l.String() and l.IsValid()
StringCall == Returned("String", [ text |-> LevelString(call.level),
                                   valid |-> IsValid(call.level) ])
\* receiver.UnmarshalText(text)
UnmarshalTextCall == Returned("UnmarshalText", UnmarshalText(call.receiver, call.text))
\* bytes, _ := l.MarshalText(); receiver.UnmarshalText(bytes)
RoundTripCall ==
    Returned("RoundTrip", UnmarshalText(call.receiver, MarshalText(call.level).bytes))

LevelsNext ==
    \/ StringCall
    \/ UnmarshalTextCall
    \/ RoundTripCall

LevelsSpec == LevelsInit /\ [][LevelsNext]_vars

\* C26: UnmarshalText on a text that is no level name fails with an error
\* that wraps ErrUnknownLevel and whose message contains the text it was given.
C26_ErrorNamesInput ==
    (call.op = "levels" /\ "UnmarshalText" \in DOMAIN ret
                        /\ call.text \notin { s[i] : i \in DOMAIN s }) =>
        /\ ret["UnmarshalText"].err # NoError
        /\ ret["UnmarshalText"].err.wraps = ErrUnknownLevel
        /\ Contains(ret["UnmarshalText"].err.message, call.text)

\* C27: for every level L from Fatal to Debug, UnmarshalText of MarshalText(L)
\* succeeds and yields L; the six names are pairwise distinct; String returns
\* "unknown" exactly for the values for which IsValid is false.
C27_ParseInvertsString ==
    call.op = "levels" =>
        /\ ("RoundTrip" \in DOMAIN ret /\ call.level \in LevelFatal..LevelDebug) =>
              /\ ret["RoundTrip"].err = NoError
              /\ ret["RoundTrip"].level = call.level
        /\ \A i, j \in DOMAIN s : i # j => s[i] # s[j]
        /\ "String" \in DOMAIN ret =>
              (ret["String"].text = Unknown <=> ~ret["String"].valid)

\* the name of LevelWarn has been parsed back into a receiver that held
\* another level
C27_Witness ==
    /\ call.op = "levels"
    /\ DOMAIN ret = { "String", "UnmarshalText", "RoundTrip" }
    /\ call.level = LevelWarn
    /\ call.receiver = LevelFatal
    /\ ret["RoundTrip"].level = LevelWarn
    /\ ret["String"].text = << "w","a","r","n" >>


\* C28: a Log call holds the read lock only while it reads the configuration:
\* it holds it at no point from the check on (not during Format, not during
\* Write, not after any return), so while a call is inside Write every setter
\* is able to run.
C28_LockOnlyAroundRead ==
    \A g \in Goroutines :
        /\ g \in rlock => pc[g] = "check"
        /\ (pc[g] = "inwrite" /\ exited = "running") =>
              /\ ENABLED SetLevel
              /\ ENABLED SetFormatter
              /\ ENABLED SetWriter

\* while a call is inside Write on one writer, SetWriter has completed and the
\* logger holds another writer
C28_Witness ==
    \E g \in Goroutines :
        /\ pc[g] = "inwrite"
        /\ written[g][Len(written[g])].writer # writer
        /\ rlock = {}


\* text t starts with the text u
StartsWith(t, u) == Len(t) >= Len(u) /\ SubSeq(t, 1, Len(u)) = u

\* the output starts with a rendered time (no message or label does)
HasTimestampPrefix ==
    \E t \in { ZeroTime, CreateTime, FormatTime } :
        StartsWith(Out, TimestampText(t) \o << " " >>)

\* C29: an event built with the WithoutTimestamp option is rendered without a
\* timestamp prefix, also by a console formatter with timestamps enabled,
\* whereas an event built without the option is rendered by such a formatter
\* with its timestamp followed by a space.
C29_WithoutTimestampOmits ==
    (Formatted /\ call.cfg.IncludeTimestamp) =>
        IF \E i \in DOMAIN call.ofs : call.ofs[i] = WithoutTimestamp
        THEN ~HasTimestampPrefix
        ELSE StartsWith(Out, TimestampText(CreateTime) \o << " " >>)


(***************************************************************************)
(* Entry points called concurrently with one options slice                 *)
(* (logger.go 183-257: ofs = append(ofs, ...); l.Log(_NewEvent(ofs...)))   *)
(***************************************************************************)
\* an array slot beyond the slice's length: spare capacity
EmptySlot == [ op |-> "empty" ]

\* the level and message of each goroutine's call
SliceArgs == [ level : { LevelError, LevelInfo }, message : { << "a" >>, << "b" >> } ]

\* the caller's slice ofs is passed as ofs...: the callee's parameter shares
\* its array; with spare capacity the array has room for two more options
SliceSpecInit ==
    /\ LoggerInit
    /\ call \in [ op : {"slice"}, ofs : OptionLists, spare : BOOLEAN,
                  args : [ SliceGoroutines -> SliceArgs ] ]
    /\ ret = <<>>

\* the caller's array once the calls start
CallerArray == call.ofs \o (IF call.spare THEN << EmptySlot, EmptySlot >> ELSE <<>>)
\* the array g's slice refers to after append: the caller's if it has room
\* for the two options, a fresh copy otherwise
ArrayOf(g) == IF call.spare THEN "caller" ELSE g
\* the array store as g finds it when its call starts
Arrays == IF "caller" \in DOMAIN backing THEN backing
          ELSE [ x \in {"caller"} |-> CallerArray ]

\* append(ofs, _WithLevel(L), _WithMessage(message)): the first element is
\* stored behind the caller's elements, in place or in a fresh copy
AppendLevel(g) ==
    /\ call.op = "slice"
    /\ epc[g] = "idle"
    /\ LET n == Len(call.ofs)
           opt == _WithLevel(call.args[g].level)
       IN  backing' =
             IF call.spare
             THEN [ Arrays EXCEPT !["caller"][n + 1] = opt ]
             ELSE [ x \in DOMAIN Arrays \cup {g} |->
                      IF x = g THEN call.ofs \o << opt, EmptySlot >> ELSE Arrays[x] ]
    /\ epc' = [epc EXCEPT ![g] = "append"]
    /\ UNCHANGED << logOnlyVars, consoleWriterVars, call, ret, built >>

\* append: the second element is stored
AppendMessage(g) ==
    /\ call.op = "slice"
    /\ epc[g] = "append"
    /\ backing' = [ backing EXCEPT ![ArrayOf(g)][Len(call.ofs) + 2] =
                      _WithMessage(call.args[g].message) ]
    /\ epc' = [epc EXCEPT ![g] = "new"]
    /\ UNCHANGED << logOnlyVars, consoleWriterVars, call, ret, built >>

\* _NewEvent: the loop over ofs reads and runs the caller's options and the
\* option behind them
ApplyFirst(g) ==
    /\ call.op = "slice"
    /\ epc[g] = "new"
    /\ built' = [built EXCEPT ![g] =
                   _NewEvent(SubSeq(backing[ArrayOf(g)], 1, Len(call.ofs) + 1))]
    /\ epc' = [epc EXCEPT ![g] = "last"]
    /\ UNCHANGED << logOnlyVars, consoleWriterVars, call, ret, backing >>

\* _NewEvent: the loop reads and runs the last option; the event goes to Log
ApplyLast(g) ==
    /\ call.op = "slice"
    /\ epc[g] = "last"
    /\ built' = [built EXCEPT ![g] =
                   ApplyOption(built[g], backing[ArrayOf(g)][Len(call.ofs) + 2])]
    /\ epc' = [epc EXCEPT ![g] = "done"]
    /\ UNCHANGED << logOnlyVars, consoleWriterVars, call, ret, backing >>

SliceNext ==
    \/ \E g \in SliceGoroutines : AppendLevel(g)
    \/ \E g \in SliceGoroutines : AppendMessage(g)
    \/ \E g \in SliceGoroutines : ApplyFirst(g)
    \/ \E g \in SliceGoroutines : ApplyLast(g)

SliceSpec == SliceSpecInit /\ [][SliceNext]_vars

\* C30: when goroutines call entry points concurrently with the same options
\* slice, each call's event carries its own level and its own message, and the
\* elements of the caller's slice stay what they were.
C30_OwnLevelAndMessage ==
    call.op = "slice" =>
        /\ \A g \in SliceGoroutines :
              epc[g] = "done" =>
                  /\ built[g].level = call.args[g].level
                  /\ built[g].message = call.args[g].message
        /\ "caller" \in DOMAIN backing =>
              SubSeq(backing["caller"], 1, Len(call.ofs)) = call.ofs

====
